---- MODULE Spec2Model ----
(***************************************************************************)
(* The globe application of src/src/DebugPanel.tsx (the App component and  *)
(* its helpers): the region classifier groupId, the cubic-bezier easing,   *)
(* the camera animator animatePOV, the highlight fade startEasedFade and   *)
(* the hover effect, driven by a frame clock (requestAnimationFrame).      *)
(*                                                                         *)
(* Units.  Angles and altitude are hundredths (40.61 degrees is 4061),     *)
(* times are milliseconds, and the eased scalars (progress, fadeT,         *)
(* hoverAnimT) are thousandths: ES stands for 1.0.  A JavaScript string is *)
(* the sequence of its characters; an optional string is <<>> (undefined)  *)
(* or <<s>>.                                                               *)
(***************************************************************************)
EXTENDS Integers, Sequences, FiniteSets, TLC

\* ------------------------------------------------------------------------
\* Bounds of the model
\* ------------------------------------------------------------------------

\* At most this many fields are set in the property bag of a classified feature.
MaxFields == 2

\* ------------------------------------------------------------------------
\* Strings
\* ------------------------------------------------------------------------

UpperChars ==
  <<"A", "B", "C", "D", "E", "F", "G", "H", "I", "J", "K", "L", "M", "N", "O", "P", "Q", "R", "S", "T", "U", "V", "W", "X", "Y", "Z", "U+00C9">>
LowerChars ==
  <<"a", "b", "c", "d", "e", "f", "g", "h", "i", "j", "k", "l", "m", "n", "o", "p", "q", "r", "s", "t", "u", "v", "w", "x", "y", "z", "U+00E9">>
AlnumChars ==
  {"a", "b", "c", "d", "e", "f", "g", "h", "i", "j", "k", "l", "m", "n", "o", "p", "q", "r", "s", "t", "u", "v", "w", "x", "y", "z", "0", "1", "2", "3", "4", "5", "6", "7", "8", "9"}

\* U+0300..U+036F, the combining marks the model's characters decompose into.
CombiningMarks == {"U+0301"}

S_USA ==
  <<"U", "S", "A">>
S_usa ==
  <<"u", "s", "a">>
S_Gbr ==
  <<"G", "b", "r">>
S_spCAN ==
  <<" ", "C", "A", "N">>
S_m99 ==
  <<"-", "9", "9">>
S_AUS ==
  <<"A", "U", "S">>
S_Canada ==
  <<"C", "a", "n", "a", "d", "a">>
S_CanadaAcute ==
  <<"C", "a", "n", "a", "d", "U+00E1">>
S_UKLong ==
  <<"U", "n", "i", "t", "e", "d", " ", "K", "i", "n", "g", "d", "o", "m", " ", "o", "f", " ", "G", "r", "e", "a", "t", " ", "B", "r", "i", "t", "a", "i", "n", " ", "a", "n", "d", " ", "N", "o", "r", "t", "h", "e", "r", "n", " ", "I", "r", "e", "l", "a", "n", "d">>
S_TheUnitedKingdom ==
  <<"T", "h", "e", " ", "U", "n", "i", "t", "e", "d", "-", "K", "i", "n", "g", "d", "o", "m">>
S_greatBritainSpaced ==
  <<" ", " ", "g", "r", "e", "a", "t", " ", " ", " ", "b", "r", "i", "t", "a", "i", "n", "!">>
S_UdotKdot ==
  <<"U", ".", "K", ".">>
S_Ruritania ==
  <<"R", "u", "r", "i", "t", "a", "n", "i", "a">>
S_PRC ==
  <<"P", "e", "o", "p", "l", "e", "'", "s", " ", "R", "e", "p", "u", "b", "l", "i", "c", " ", "o", "f", " ", "C", "h", "i", "n", "a">>
S_Australia ==
  <<"A", "u", "s", "t", "r", "a", "l", "i", "a">>
S_united_kingdom ==
  <<"u", "n", "i", "t", "e", "d", " ", "k", "i", "n", "g", "d", "o", "m">>
S_great_britain ==
  <<"g", "r", "e", "a", "t", " ", "b", "r", "i", "t", "a", "i", "n">>
N_canada ==
  <<"c", "a", "n", "a", "d", "a">>
N_uklong ==
  <<"u", "n", "i", "t", "e", "d", " ", "k", "i", "n", "g", "d", "o", "m", " ", "o", "f", " ", "g", "r", "e", "a", "t", " ", "b", "r", "i", "t", "a", "i", "n", " ", "a", "n", "d", " ", "n", "o", "r", "t", "h", "e", "r", "n", " ", "i", "r", "e", "l", "a", "n", "d">>
N_the_united_kingdom ==
  <<"t", "h", "e", " ", "u", "n", "i", "t", "e", "d", " ", "k", "i", "n", "g", "d", "o", "m">>
N_u_k ==
  <<"u", " ", "k">>
N_ruritania ==
  <<"r", "u", "r", "i", "t", "a", "n", "i", "a">>
N_prc ==
  <<"p", "e", "o", "p", "l", "e", " ", "s", " ", "r", "e", "p", "u", "b", "l", "i", "c", " ", "o", "f", " ", "c", "h", "i", "n", "a">>
N_australia ==
  <<"a", "u", "s", "t", "r", "a", "l", "i", "a">>

\* ------------------------------------------------------------------------
\* GROUPS, CUSTOM_VIEWS
\* ------------------------------------------------------------------------

\* Object.keys(GROUPS), in insertion order.
GroupKeys == <<"CAN", "USA", "GBR", "CHN", "AUS">>

GROUPS ==
  [ CAN |-> [ iso3  |-> << <<"C", "A", "N">> >>,
              names |-> << <<"C", "a", "n", "a", "d", "a">> >> ],
    USA |-> [ iso3  |-> << <<"U", "S", "A">> >>,
              names |-> << <<"U", "n", "i", "t", "e", "d", " ", "S", "t", "a", "t", "e", "s", " ", "o", "f", " ", "A", "m", "e", "r", "i", "c", "a">>,
                           <<"U", "n", "i", "t", "e", "d", " ", "S", "t", "a", "t", "e", "s">>,
                           <<"U", "S", "A">> >> ],
    GBR |-> [ iso3  |-> << <<"G", "B", "R">> >>,
              names |-> << <<"U", "n", "i", "t", "e", "d", " ", "K", "i", "n", "g", "d", "o", "m">>,
                           <<"U", "n", "i", "t", "e", "d", " ", "K", "i", "n", "g", "d", "o", "m", " ", "o", "f", " ", "G", "r", "e", "a", "t", " ", "B", "r", "i", "t", "a", "i", "n", " ", "a", "n", "d", " ", "N", "o", "r", "t", "h", "e", "r", "n", " ", "I", "r", "e", "l", "a", "n", "d">>,
                           <<"G", "r", "e", "a", "t", " ", "B", "r", "i", "t", "a", "i", "n">>,
                           <<"U", "K">>,
                           <<"E", "n", "g", "l", "a", "n", "d">>,
                           <<"S", "c", "o", "t", "l", "a", "n", "d">>,
                           <<"W", "a", "l", "e", "s">>,
                           <<"N", "o", "r", "t", "h", "e", "r", "n", " ", "I", "r", "e", "l", "a", "n", "d">> >> ],
    CHN |-> [ iso3  |-> << <<"C", "H", "N">> >>,
              names |-> << <<"C", "h", "i", "n", "a">>,
                           <<"P", "e", "o", "p", "l", "e", "'", "s", " ", "R", "e", "p", "u", "b", "l", "i", "c", " ", "o", "f", " ", "C", "h", "i", "n", "a">>,
                           <<"P", "e", "o", "p", "l", "e", "s", " ", "R", "e", "p", "u", "b", "l", "i", "c", " ", "o", "f", " ", "C", "h", "i", "n", "a">> >> ],
    AUS |-> [ iso3  |-> << <<"A", "U", "S">> >>,
              names |-> << <<"A", "u", "s", "t", "r", "a", "l", "i", "a">> >> ] ]

CUSTOM_VIEWS ==
  [ CAN |-> [lat |-> 4061,  lng |-> -9885, altitude |-> 180],
    USA |-> [lat |-> 2700,  lng |-> -9521, altitude |-> 180],
    GBR |-> [lat |-> 3266,  lng |-> -134,  altitude |-> 180],
    CHN |-> [lat |-> 2023,  lng |-> 10572, altitude |-> 180],
    AUS |-> [lat |-> -4768, lng |-> 13688, altitude |-> 180] ]

\* ------------------------------------------------------------------------
\* norm, props, getFeatISO3, getFeatName, groupId
\* ------------------------------------------------------------------------

IndexOf(seq, c) == CHOOSE i \in 1..Len(seq) : seq[i] = c

IsIn(seq, c) == \E i \in 1..Len(seq) : seq[i] = c

ToLowerCase(s) ==
  [i \in 1..Len(s) |->
     IF IsIn(UpperChars, s[i]) THEN LowerChars[IndexOf(UpperChars, s[i])] ELSE s[i]]

ToUpperCase(s) ==
  [i \in 1..Len(s) |->
     IF IsIn(LowerChars, s[i]) THEN UpperChars[IndexOf(LowerChars, s[i])] ELSE s[i]]

\* The compatibility decomposition of one character.
Decompose(c) ==
  CASE c = "U+00E9" -> <<"e", "U+0301">>
    [] c = "U+00E1" -> <<"a", "U+0301">>
    [] c = "U+00C9" -> <<"E", "U+0301">>
    [] OTHER -> <<c>>

RECURSIVE NormalizeNFKD(_)
NormalizeNFKD(s) ==
  IF s = <<>> THEN <<>> ELSE Decompose(Head(s)) \o NormalizeNFKD(Tail(s))

\* replace(/[\u0300-\u036f]/g, ''): the combining marks are dropped.
StripMarks(s) == SelectSeq(s, LAMBDA c : c \notin CombiningMarks)

\* replace(/[^a-z0-9]+/g, ' '): each maximal run of other characters becomes one space.
RECURSIVE CollapseNonAlnum(_, _)
CollapseNonAlnum(s, inRun) ==
  IF s = <<>> THEN <<>>
  ELSE IF Head(s) \in AlnumChars THEN <<Head(s)>> \o CollapseNonAlnum(Tail(s), FALSE)
  ELSE IF inRun THEN CollapseNonAlnum(Tail(s), TRUE)
  ELSE <<" ">> \o CollapseNonAlnum(Tail(s), TRUE)

RECURSIVE TrimStart(_)
TrimStart(s) ==
  IF s # <<>> /\ Head(s) = " " THEN TrimStart(Tail(s)) ELSE s

RECURSIVE TrimEnd(_)
TrimEnd(s) ==
  IF s # <<>> /\ s[Len(s)] = " " THEN TrimEnd(SubSeq(s, 1, Len(s) - 1)) ELSE s

Trim(s) == TrimEnd(TrimStart(s))

\* norm(s?: string); o is an optional string and (s || '') makes undefined ''.
norm(o) ==
  LET s == IF o = <<>> THEN <<>> ELSE o[1]
  IN  Trim(CollapseNonAlnum(StripMarks(NormalizeNFKD(ToLowerCase(s))), FALSE))

\* String.prototype.includes
Includes(s, sub) ==
  \E i \in 0..(Len(s) - Len(sub)) : SubSeq(s, i + 1, i + Len(sub)) = sub

IsoKeys ==
  <<"ISO_A3", "iso_a3", "ADM0_A3", "adm0_a3", "SOV_A3", "sov_a3", "WB_A3", "wb_a3",
    "GU_A3", "gu_a3", "SU_A3", "su_a3", "A3", "a3">>

NameKeys ==
  <<"ADMIN", "admin", "NAME_LONG", "name_long", "NAME_EN", "name_en", "NAME", "name",
    "SOVEREIGNT", "sovereignt", "GEOUNIT", "geounit", "BRK_NAME", "brk_name">>

AllKeys == {IsoKeys[i] : i \in 1..Len(IsoKeys)} \cup {NameKeys[i] : i \in 1..Len(NameKeys)}

\* A property bag with no recognised field.
EmptyBag == [k \in AllKeys |-> <<>>]

\* A feature is undefined, a feature without a property bag, or one with a bag.
FeatureOf(bag) == [kind |-> "bag", properties |-> bag]

NoBagFeature == [kind |-> "nobag", properties |-> EmptyBag]

UndefinedFeature == [kind |-> "undefined", properties |-> EmptyBag]

\* props(f) = f?.properties ?? {}; ok is FALSE where the read would throw.
props(f) ==
  [ok |-> TRUE, p |-> IF f.kind = "bag" THEN f.properties ELSE EmptyBag]

\* JavaScript truthiness of an optional string.
Truthy(o) == o # <<>> /\ o[1] # <<>>

\* p[k1] || p[k2] || ... : the first truthy operand, else the last operand.
RECURSIVE OrChain(_, _, _)
OrChain(p, keys, i) ==
  IF i = Len(keys) \/ Truthy(p[keys[i]]) THEN p[keys[i]] ELSE OrChain(p, keys, i + 1)

getFeatISO3(f) == OrChain(props(f).p, IsoKeys, 1)

getFeatName(f) == OrChain(props(f).p, NameKeys, 1)

\* The first loop of groupId: the first key whose iso3 list includes iso.
RECURSIVE IsoLoop(_, _)
IsoLoop(iso, i) ==
  IF i > Len(GroupKeys) THEN "null"
  ELSE IF IsIn(GROUPS[GroupKeys[i]].iso3, iso) THEN GroupKeys[i]
  ELSE IsoLoop(iso, i + 1)

\* The second loop of groupId: the first key having a name nm with norm(nm) = nameN.
RECURSIVE NameLoop(_, _)
NameLoop(nameN, i) ==
  IF i > Len(GroupKeys) THEN "null"
  ELSE IF \E j \in 1..Len(GROUPS[GroupKeys[i]].names) :
            norm(<<GROUPS[GroupKeys[i]].names[j]>>) = nameN
       THEN GroupKeys[i]
  ELSE NameLoop(nameN, i + 1)

\* groupId mutated: the name loop runs before the ISO loop.
groupIdNameFirst(f) ==
  LET o     == getFeatISO3(f)
      iso   == ToUpperCase(IF Truthy(o) THEN o[1] ELSE <<>>)
      nameN == norm(getFeatName(f))
  IN  IF ~props(f).ok THEN "TypeError"
      ELSE IF NameLoop(nameN, 1) # "null" THEN NameLoop(nameN, 1)
      ELSE IF IsoLoop(iso, 1) # "null" THEN IsoLoop(iso, 1)
      ELSE IF Includes(nameN, S_united_kingdom) \/ Includes(nameN, S_great_britain)
           THEN "GBR"
      ELSE "null"

\* groupId(f): a group key, "null", or "TypeError" where the call would throw.
groupId(f) ==
  LET o     == getFeatISO3(f)
      iso   == ToUpperCase(IF Truthy(o) THEN o[1] ELSE <<>>)
      nameN == norm(getFeatName(f))
  IN  IF ~props(f).ok THEN "TypeError"
      ELSE IF IsoLoop(iso, 1) # "null" THEN IsoLoop(iso, 1)
      ELSE IF NameLoop(nameN, 1) # "null" THEN NameLoop(nameN, 1)
      ELSE IF Includes(nameN, S_united_kingdom) \/ Includes(nameN, S_great_britain)
           THEN "GBR"
      ELSE "null"

isSelectable(f) == groupId(f) # "null"

\* ------------------------------------------------------------------------
\* cubicBezier, easeCB, easeInOut
\* ------------------------------------------------------------------------

\* 1.0 in the eased scalars.
ES == 10 * 100

NEWTON_ITER == 8

\* 1e-6 is below the resolution 1/ES: a slope is "near zero" when it is zero.
NEWTON_EPS == 1

\* 1e-7 likewise: the smallest difference at which the integer bisection ends.
SUBDIV_EPS == 2

Abs(x) == IF x < 0 THEN -x ELSE x

Min(a, b) == IF a < b THEN a ELSE b

Max(a, b) == IF a > b THEN a ELSE b

\* a / b, rounded down.
Div(a, b) == IF b > 0 THEN a \div b ELSE (-a) \div (-b)

\* d * e for an eased scalar e.
Scale(d, e) == (d * e) \div ES

\* The polynomial coefficients of one coordinate with control values p1, p2.
CoefA(p1, p2) == 3 * p1 - 3 * p2 + ES

CoefB(p1, p2) == 3 * p2 - 6 * p1

CoefC(p1) == 3 * p1

\* sampleX, sampleY: ((a t + b) t + c) t
Sample(a, b, c, t) == Scale(Scale(Scale(a, t) + b, t) + c, t)

\* slopeX: (3 a t + 2 b) t + c
Slope(a, b, c, t) == Scale(Scale(3 * a, t) + 2 * b, t) + c

\* The Newton-Raphson loop of solveX, from pass i with the estimate t.
RECURSIVE Newton(_, _, _, _, _, _)
Newton(a, b, c, x, t, i) ==
  IF i >= NEWTON_ITER THEN t
  ELSE LET s == Slope(a, b, c, t)
       IN  IF Abs(s) < NEWTON_EPS THEN t
           ELSE Newton(a, b, c, x, t - Div((Sample(a, b, c, t) - x) * ES, s), i + 1)

\* The bisection loop of solveX on [t0, t1] with the estimate t.
RECURSIVE Bisect(_, _, _, _, _, _, _)
Bisect(a, b, c, x, t, t0, t1) ==
  IF ~(t0 < t1) THEN t
  ELSE LET xEst == Sample(a, b, c, t)
           n0   == IF x > xEst THEN t ELSE t0
           n1   == IF x > xEst THEN t1 ELSE t
           nt   == (n0 + n1) \div 2
       IN  IF Abs(xEst - x) < SUBDIV_EPS THEN t
           ELSE IF n1 - n0 < SUBDIV_EPS THEN nt
           ELSE Bisect(a, b, c, x, nt, n0, n1)

solveX(x1, x2, x) ==
  LET a == CoefA(x1, x2)
      b == CoefB(x1, x2)
      c == CoefC(x1)
  IN  Bisect(a, b, c, x, Newton(a, b, c, x, x, 0), 0, ES)

\* cubicBezier(x1, y1, x2, y2)(x)
cubicBezier(x1, y1, x2, y2, x) ==
  Sample(CoefA(y1, y2), CoefB(y1, y2), CoefC(y1), solveX(x1, x2, Min(Max(x, 0), ES)))

\* The two presets, tabulated over the progress values 0..ES.
easeCBTable == [x \in 0..ES |-> cubicBezier(480, 200, 50, 990, x)]

easeInOutTable == [x \in 0..ES |-> cubicBezier(420, 0, 580, 1000, x)]

easeCB(x) == easeCBTable[x]

easeInOut(x) == easeInOutTable[x]

\* The easing function a session was given.
Ease(easing, x) == IF easing = "easeCB" THEN easeCB(x) ELSE easeInOut(x)

\* Math.min(1, elapsed / ms)
Progress(elapsed, ms) == Min(ES, (elapsed * ES) \div ms)

\* ------------------------------------------------------------------------
\* State
\* ------------------------------------------------------------------------

VARIABLES
  globeRef,       \* globeRef.current: "handle" while the globe is mounted, else "null"
  loader,         \* the data loader: the source it is at, the outcomes so far, the log
  geoJson,        \* "null", or "loaded": the collection WorldFeatures is set
  focus,          \* the focus query parameter, an optional string
  focusDirty,     \* the focus effect's dependencies changed since it last ran
  timers,         \* the pending setTimeout callbacks of the focus effect
  pov,            \* the camera handle's point of view
  autoRotate,     \* controls.autoRotate
  camQ,           \* the pending frame callbacks of animatePOV sessions, oldest first
  lastTo,         \* the target of the latest animatePOV call
  lastWritten,    \* the POV a session's step last passed to the handle
  events,         \* the user's clicks, hover changes and drags so far
  selected,       \* index of the selected feature, 0 for null
  fadeT,          \* the fade output
  fadeRAF,        \* fadeRAF.current, 0 for null
  fadeQ,          \* the pending frame callbacks of startEasedFade ticks
  hovered,        \* index of the hovered feature, 0 for null
  hoverAnimGroup, \* the group the hover blend is drawn on, "null" for none
  hoverAnimT,     \* the hover output
  hoverRAF,       \* hoverRAF.current, 0 for null
  hoverQ,         \* the pending frame callbacks of hover steps
  hoverDeps,      \* the dependencies the hover effect last ran with
  leftAt,         \* hoverAnimT at the latest hover-leave, -1 after a hover-enter
  feat,           \* the feature given to groupId
  gid,            \* what groupId returned for it, "pending" before the call
  dFrom,          \* the handle's longitude read by animatePOV
  dTo,            \* the target longitude given to animatePOV
  dE,             \* an eased progress value
  dOut            \* the delta and the longitude written, "pending" before the call

appVars ==
  <<globeRef, loader, geoJson, focus, focusDirty, timers, pov, autoRotate, camQ, lastTo, lastWritten,
    events, selected, fadeT, fadeRAF, fadeQ, hovered, hoverAnimGroup,
    hoverAnimT, hoverRAF, hoverQ, hoverDeps, leftAt>>

classifyVars == <<feat, gid>>

deltaVars == <<dFrom, dTo, dE, dOut>>

vars == <<appVars, classifyVars, deltaVars>>

\* ------------------------------------------------------------------------
\* Bounds of the application model
\* ------------------------------------------------------------------------

\* The user's events (clicks, hover changes, drags) in one run.
MaxEvents == 3

\* The time between two frames, in ms: of the whole application's runs, of the
\* runs with clicks and drags only, of the runs with hover changes only.
FrameSteps == {500}

CameraFrameSteps == {250}

HoverFrameSteps == {250, 500}

\* The longitudes given to dLng lie on a grid of this many steps around the globe.
LngGrid == 12

\* ------------------------------------------------------------------------
\* The feature collection and the query parameter of the application runs
\* ------------------------------------------------------------------------

BagOf(key, val) == [EmptyBag EXCEPT ![key] = <<val>>]

\* geoJson.features once loaded: Canada by code, Australia by name only, and a
\* country of no group.
WorldFeatures ==
  << FeatureOf([BagOf("ISO_A3", <<"C", "A", "N">>) EXCEPT !["NAME"] = <<S_Canada>>]),
     FeatureOf(BagOf("name", S_Australia)),
     FeatureOf(BagOf("NAME", S_Ruritania)) >>

FeatureIds == 1..Len(WorldFeatures)

\* groupId of each feature of the collection.
FeatureGroup == [i \in FeatureIds |-> groupId(WorldFeatures[i])]

\* urlParams.get('focus'): absent, a group code in lower case, no group code.
FocusParams == { <<>>, << <<"a", "u", "s">> >>, << <<"m", "a", "r", "s">> >> }

\* The characters of a group key.
KeyChars(g) == GROUPS[g].iso3[1]

\* ------------------------------------------------------------------------
\* The camera handle and animatePOV
\* ------------------------------------------------------------------------

NoPOV == [lat |-> 0, lng |-> 0, altitude |-> 0]

\* The initial point of view: lat0 = 40 lifted, lng0 = -10, altitude 1.8.
SCREEN_LIFT_DEG == 1200

applyScreenLift(lat) == Max(-8500, Min(8500, lat - SCREEN_LIFT_DEG))

InitialPOV == [lat |-> applyScreenLift(4000), lng |-> -1000, altitude |-> 180]

\* Where a drag may leave the camera.
DragPOVs == { [lat |-> 0, lng |-> -17000, altitude |-> 180] }

\* The handle keeps the camera's position: the longitude it reports is in (-180, 180].
WrapLng(l) ==
  IF l > 18000 THEN l - 36000 ELSE IF l <= -18000 THEN l + 36000 ELSE l

HandleSet(p) == [p EXCEPT !.lng = WrapLng(p.lng)]

\* dLng mutated: the raw difference, never wrapped.
dLngRaw(fromLng, toLng) == toLng - fromLng

\* dLng mutated: only the first wrap is made.
dLngOneSided(fromLng, toLng) ==
  LET d0 == toLng - fromLng
  IN  IF d0 > 18000 THEN d0 - 36000 ELSE d0

\* let dLng = to.lng - from.lng; if (dLng > 180) dLng -= 360; if (dLng < -180) dLng += 360
dLng(fromLng, toLng) ==
  LET d0 == toLng - fromLng
      d1 == IF d0 > 18000 THEN d0 - 36000 ELSE d0
  IN  IF d1 < -18000 THEN d1 + 36000 ELSE d1

\* The POV step writes at eased progress e.
StepPOV(s, e) ==
  [lat      |-> s.from.lat + Scale(s.to.lat - s.from.lat, e),
   lng      |-> s.from.lng + Scale(s.dLng, e),
   altitude |-> s.from.altitude + Scale(s.to.altitude - s.from.altitude, e)]

\* The session animatePOV(to, ms, easing) creates, reading the handle.
NewSession(to, ms, easing) ==
  [from |-> pov, to |-> to, dLng |-> dLng(pov.lng, to.lng), el |-> 0, ms |-> ms,
   easing |-> easing]

\* animatePOV mutated: the handle is used without the test for null.
animatePOVUnguarded(to, ms, easing) ==
  /\ camQ' = Append(camQ, NewSession(to, ms, easing))
  /\ lastTo' = to

\* animatePOV: const g = globeRef.current; if (!g) return.  Otherwise the step
\* is registered behind the callbacks already pending.
animatePOV(to, ms, easing) ==
  IF globeRef = "null"
  THEN /\ camQ' = camQ
       /\ lastTo' = lastTo
  ELSE /\ camQ' = Append(camQ, NewSession(to, ms, easing))
       /\ lastTo' = to

\* setAutoRotate(globeRef, on): if (!g) return; controls.autoRotate = on
setAutoRotate(on) == autoRotate' = IF globeRef = "null" THEN autoRotate ELSE on

\* RunCamera mutated: step re-registers itself whatever the progress.
RECURSIVE RunCameraNoStop(_, _, _)
RunCameraNoStop(q, dt, acc) ==
  IF q = <<>> THEN acc
  ELSE LET s   == Head(q)
           el  == Min(s.el + dt, s.ms)
           w   == StepPOV(s, Ease(s.easing, Progress(el, s.ms)))
       IN  RunCameraNoStop(Tail(q), dt,
                           [pov     |-> HandleSet(w),
                            written |-> w,
                            q       |-> Append(acc.q, [s EXCEPT !.el = el])])

\* One frame of the camera callbacks in q, in registration order, dt after the
\* previous frame: the handle's POV, the POV last written, the callbacks re-registered.
RECURSIVE RunCamera(_, _, _)
RunCamera(q, dt, acc) ==
  IF q = <<>> THEN acc
  ELSE LET s   == Head(q)
           el  == Min(s.el + dt, s.ms)
           p   == Progress(el, s.ms)
           w   == StepPOV(s, Ease(s.easing, p))
       IN  RunCamera(Tail(q), dt,
                     [pov     |-> HandleSet(w),
                      written |-> w,
                      q       |-> IF p < ES THEN Append(acc.q, [s EXCEPT !.el = el])
                                  ELSE acc.q])

\* ------------------------------------------------------------------------
\* requestAnimationFrame handles
\* ------------------------------------------------------------------------

Handles(q) == {q[i].h : i \in 1..Len(q)}

\* The handle requestAnimationFrame returns: one that no pending callback has
\* and that the ref does not still hold.
NewHandle(q, ref) ==
  CHOOSE h \in 1..(Len(q) + 2) :
    /\ h \notin Handles(q) \cup {ref}
    /\ \A k \in 1..(h - 1) : k \in Handles(q) \cup {ref}

cancelAnimationFrame(q, h) == SelectSeq(q, LAMBDA c : c.h # h)

\* ------------------------------------------------------------------------
\* startEasedFade and its tick
\* ------------------------------------------------------------------------

\* startEasedFade mutated: the pending tick is not cancelled.
startEasedFadeNoCancel(delayMs, durMs) ==
  LET h == NewHandle(fadeQ, fadeRAF)
  IN  /\ fadeQ' = Append(fadeQ, [h |-> h, el |-> 0, delay |-> delayMs, dur |-> durMs])
      /\ fadeRAF' = h

\* startEasedFade(delayMs, durMs)
startEasedFade(delayMs, durMs) ==
  LET q1 == IF fadeRAF # 0 THEN cancelAnimationFrame(fadeQ, fadeRAF) ELSE fadeQ
      h  == NewHandle(q1, fadeRAF)
  IN  /\ fadeQ' = Append(q1, [h |-> h, el |-> 0, delay |-> delayMs, dur |-> durMs])
      /\ fadeRAF' = h

\* One frame of the ticks in q, dt after the previous frame.  acc holds fadeT,
\* fadeRAF.current and the ticks re-registered so far.
RECURSIVE RunFade(_, _, _)
RunFade(q, dt, acc) ==
  IF q = <<>> THEN acc
  ELSE LET c    == Head(q)
           el   == Min(c.el + dt, c.delay + c.dur)
           p    == Progress(el - c.delay, c.dur)
           h    == NewHandle(Tail(q) \o acc.q, acc.ref)
           next == Append(acc.q, [c EXCEPT !.el = el, !.h = h])
       IN  RunFade(Tail(q), dt,
                   IF el < c.delay THEN [t |-> 0, ref |-> h, q |-> next]
                   ELSE IF p < ES THEN [t |-> easeCB(p), ref |-> h, q |-> next]
                   ELSE [t |-> easeCB(p), ref |-> acc.ref, q |-> acc.q])

\* ------------------------------------------------------------------------
\* The hover effect and its step
\* ------------------------------------------------------------------------

HOVER_DUR_MS == 1000

\* useMemo(() => (hovered ? groupId(hovered) : null), [hovered])
hoveredGroup == IF hovered = 0 THEN "null" ELSE FeatureGroup[hovered]

\* The effect's dependency list [hoveredGroup, hoverAnimT, hoverAnimGroup].
HoverDepsNow == <<hoveredGroup, hoverAnimT, hoverAnimGroup>>

\* The value a hover session starts from, mutated: the far end of the blend.
HoverStartFull(fromT, toT) == ES - toT

\* const start = fromT
HoverStart(fromT, toT) == fromT

\* The last step of a session, mutated: the consumer is never cleared.
HoverGroupKept(toGroup, group) == group

\* else if (!toGroup) setHoverAnimGroup(null)
HoverGroupAtEnd(toGroup, group) == IF toGroup = "null" THEN "null" ELSE group

\* One frame of the steps in q, dt after the previous frame.  acc holds
\* hoverAnimT, hoverAnimGroup, hoverRAF.current and the steps re-registered.
RECURSIVE RunHover(_, _, _)
RunHover(q, dt, acc) ==
  IF q = <<>> THEN acc
  ELSE LET c    == Head(q)
           el   == Min(c.el + dt, HOVER_DUR_MS)
           p    == Progress(el, HOVER_DUR_MS)
           t    == c.start + Scale(c.toT - c.start, easeCB(p))
           h    == NewHandle(Tail(q) \o acc.q, acc.ref)
       IN  RunHover(Tail(q), dt,
                    IF p < ES
                    THEN [t |-> t, group |-> acc.group, ref |-> h,
                          q |-> Append(acc.q, [c EXCEPT !.el = el, !.h = h])]
                    ELSE [t |-> t,
                          group |-> HoverGroupAtEnd(c.toGroup, acc.group),
                          ref |-> acc.ref, q |-> acc.q])

\* return () => { if (hoverRAF.current) cancelAnimationFrame(hoverRAF.current); ... }
HoverCleanup(q, ref) == IF ref # 0 THEN cancelAnimationFrame(q, ref) ELSE q

\* React re-runs the effect after a render in which a dependency changed: the
\* previous run's cleanup, then the body.
HoverEffect ==
  /\ globeRef = "handle"
  /\ hoverDeps # HoverDepsNow
  /\ LET toGroup == hoveredGroup
         toT     == IF toGroup # "null" THEN ES ELSE 0
         q1      == HoverCleanup(hoverQ, hoverRAF)
         h       == NewHandle(q1, 0)
     IN  /\ hoverAnimGroup' =
              IF toGroup # "null" /\ toGroup # hoverAnimGroup THEN toGroup
              ELSE hoverAnimGroup
         /\ hoverQ' = Append(q1, [h |-> h, start |-> HoverStart(hoverAnimT, toT),
                                  toT |-> toT, toGroup |-> toGroup, el |-> 0])
         /\ hoverRAF' = h
  /\ hoverDeps' = HoverDepsNow
  /\ UNCHANGED <<globeRef, loader, geoJson, focus, focusDirty, timers, pov, autoRotate, camQ, lastTo,
                 lastWritten, events, selected, fadeT, fadeRAF, fadeQ, hovered,
                 hoverAnimT, leftAt, classifyVars, deltaVars>>

\* ------------------------------------------------------------------------
\* The application: initial state and operations
\* ------------------------------------------------------------------------

FOCUS_TIMEOUT_MS == 1000

\* The sources of the data loader in the order it tries them: the 50m
\* topology, then the entries of fallbacks.
Sources == <<"primary", "fallback1", "fallback2", "fallback3">>

\* What a fetch of a source can give: a rejected fetch, or a response with a
\* success or non-success status whose body is a collection with features
\* (for the primary source: a topology with countries), parses but holds no
\* features (for the primary source: is no topology), or does not parse.
SourceOutcomes ==
  {[status |-> "reject", body |-> "none"]}
    \cup [status : {"ok", "notok"}, body : {"features", "nofeatures", "garbage"}]

Delivered == [status |-> "ok", body |-> "features"]

\* The source's data is given to setGeoJson.  The primary source's response
\* status is never read: every step up to feature(...) must not throw.  A
\* fallback needs res.ok and data?.features?.length.
Delivers(at, o) ==
  IF at = 1 THEN o.status # "reject" /\ o.body = "features"
  ELSE o.status = "ok" /\ o.body = "features"

\* The attempt throws and the catch block logs a warning.  A fallback that
\* answers with a success status and a body without features does neither.
Warns(at, o) ==
  IF at = 1 THEN ~Delivers(at, o)
  ELSE o.status \in {"reject", "notok"} \/ o.body = "garbage"

\* The loader as the mount leaves it: the primary source is being fetched.
LoaderStart == [at |-> 1, tried |-> <<>>, log |-> <<>>, sets |-> 0]

\* The loader after the source it is at answered with o.
LoaderAfter(l, o) ==
  LET d    == Delivers(l.at, o)
      last == l.at = Len(Sources)
      log1 == IF Warns(l.at, o) THEN Append(l.log, "warn") ELSE l.log
  IN  [at    |-> IF d THEN Len(Sources) + 1 ELSE l.at + 1,
       tried |-> Append(l.tried, o),
       log   |-> IF d THEN l.log
                 ELSE IF last THEN Append(log1, "error") ELSE log1,
       sets  |-> IF d THEN l.sets + 1 ELSE l.sets]

IdleClassify == feat = UndefinedFeature /\ gid = "pending"

NoDelta == [done |-> FALSE, d |-> 0, lng |-> 0]

IdleDelta == dFrom = 0 /\ dTo = 0 /\ dE = 0 /\ dOut = NoDelta

\* The state once the component is mounted: every effect has run once, the
\* data is still loading, the first hover session (0 to 0) is registered.
Init ==
  /\ globeRef = "handle"
  /\ loader = LoaderStart
  /\ geoJson = "null"
  /\ focus \in FocusParams
  /\ focusDirty = FALSE
  /\ timers = <<>>
  /\ pov = InitialPOV
  /\ autoRotate = TRUE
  /\ camQ = <<>>
  /\ lastTo = NoPOV
  /\ lastWritten = NoPOV
  /\ events = 0
  /\ selected = 0
  /\ fadeT = 0
  /\ fadeRAF = 0
  /\ fadeQ = <<>>
  /\ hovered = 0
  /\ hoverAnimGroup = "null"
  /\ hoverAnimT = 0
  /\ hoverRAF = 1
  /\ hoverQ = <<[h |-> 1, start |-> 0, toT |-> 0, toGroup |-> "null", el |-> 0]>>
  /\ hoverDeps = <<"null", 0, "null">>
  /\ leftAt = -1
  /\ IdleClassify
  /\ IdleDelta

\* The source the loader is at answers with o: setGeoJson(...) and return if
\* it delivers (the focus effect depends on geoJson), else the next source,
\* and console.error after the last.
SourceAttempt(o) ==
  /\ loader.at <= Len(Sources)
  /\ loader' = LoaderAfter(loader, o)
  /\ geoJson' = IF Delivers(loader.at, o) THEN "loaded" ELSE geoJson
  /\ focusDirty' = IF Delivers(loader.at, o) THEN TRUE ELSE focusDirty
  /\ UNCHANGED <<globeRef, focus, timers, pov, autoRotate, camQ, lastTo, lastWritten,
                 events, selected, fadeT, fadeRAF, fadeQ, hovered, hoverAnimGroup,
                 hoverAnimT, hoverRAF, hoverQ, hoverDeps, leftAt, classifyVars,
                 deltaVars>>

\* The source the loader is at delivers the collection.
DataLoaded == SourceAttempt(Delivered)

\* focusParam mutated: the parameter is compared without toUpperCase().
focusParamCaseSensitive ==
  IF ~Truthy(focus) THEN "null"
  ELSE IF \E i \in 1..Len(GroupKeys) : KeyChars(GroupKeys[i]) = focus[1]
       THEN GroupKeys[CHOOSE i \in 1..Len(GroupKeys) : KeyChars(GroupKeys[i]) = focus[1]]
  ELSE "null"

\* urlParams.get('focus')?.toUpperCase() as a group key, "null" if it is none.
focusParam ==
  IF ~Truthy(focus) THEN "null"
  ELSE IF \E i \in 1..Len(GroupKeys) : KeyChars(GroupKeys[i]) = ToUpperCase(focus[1])
       THEN GroupKeys[CHOOSE i \in 1..Len(GroupKeys) :
                        KeyChars(GroupKeys[i]) = ToUpperCase(focus[1])]
  ELSE "null"

\* geoJson.features.find(f => groupId(f) === g): its index, 0 for undefined.
FindFeature(g) ==
  IF \E i \in FeatureIds : FeatureGroup[i] = g
  THEN CHOOSE i \in FeatureIds :
         /\ FeatureGroup[i] = g
         /\ \A k \in 1..(i - 1) : FeatureGroup[k] # g
  ELSE 0

\* The focus effect: with the data loaded and a focus group that has a feature,
\* it sets the timeout.
FocusEffect ==
  /\ globeRef = "handle"
  /\ focusDirty
  /\ focusDirty' = FALSE
  /\ timers' =
       IF /\ geoJson = "loaded"
          /\ globeRef = "handle"
          /\ focusParam # "null"
          /\ FindFeature(focusParam) # 0
       THEN Append(timers, [el |-> 0, g |-> focusParam, f |-> FindFeature(focusParam)])
       ELSE timers
  /\ UNCHANGED <<globeRef, loader, geoJson, focus, pov, autoRotate, camQ, lastTo, lastWritten, events,
                 selected, fadeT, fadeRAF, fadeQ, hovered, hoverAnimGroup, hoverAnimT,
                 hoverRAF, hoverQ, hoverDeps, leftAt, classifyVars, deltaVars>>

\* The timeout's callback, once its delay has passed.
FocusTimeout ==
  /\ timers # <<>>
  /\ Head(timers).el >= FOCUS_TIMEOUT_MS
  /\ timers' = Tail(timers)
  /\ animatePOV(CUSTOM_VIEWS[Head(timers).g], 1500, "easeInOut")
  /\ startEasedFade(800, 1000)
  /\ selected' = Head(timers).f
  /\ setAutoRotate(FALSE)
  /\ UNCHANGED <<globeRef, loader, geoJson, focus, focusDirty, pov, lastWritten, events, fadeT, hovered,
                 hoverAnimGroup, hoverAnimT, hoverRAF, hoverQ, hoverDeps, leftAt,
                 classifyVars, deltaVars>>

\* onPolygonClick(feat).  Every group has a CUSTOM_VIEWS entry, so the branch
\* that flies to the lifted centroid is never taken.
PolygonClick(i) ==
  /\ globeRef = "handle"
  /\ geoJson = "loaded"
  /\ events < MaxEvents
  /\ FeatureGroup[i] # "null"
  /\ animatePOV(CUSTOM_VIEWS[FeatureGroup[i]], 1000, "easeInOut")
  /\ startEasedFade(500, 1000)
  /\ selected' = i
  /\ setAutoRotate(FALSE)
  /\ events' = events + 1
  /\ UNCHANGED <<globeRef, loader, geoJson, focus, focusDirty, timers, pov, lastWritten, fadeT, hovered,
                 hoverAnimGroup, hoverAnimT, hoverRAF, hoverQ, hoverDeps, leftAt,
                 classifyVars, deltaVars>>

\* onPolygonHover(f): setHovered(f && isSelectable(f) ? f : null); i = 0 is null.
PolygonHover(i) ==
  /\ globeRef = "handle"
  /\ geoJson = "loaded"
  /\ events < MaxEvents
  /\ LET h == IF i # 0 /\ FeatureGroup[i] # "null" THEN i ELSE 0
     IN  /\ h # hovered
         /\ hovered' = h
         /\ leftAt' = IF h = 0 THEN hoverAnimT ELSE -1
  /\ events' = events + 1
  /\ UNCHANGED <<globeRef, loader, geoJson, focus, focusDirty, timers, pov, autoRotate, camQ, lastTo,
                 lastWritten, selected, fadeT, fadeRAF, fadeQ, hoverAnimGroup,
                 hoverAnimT, hoverRAF, hoverQ, hoverDeps, classifyVars, deltaVars>>

\* A drag of the camera: 'start' pauses auto-rotate, the controls move the
\* camera, 'end' resumes auto-rotate.
Drag(p) ==
  /\ globeRef = "handle"
  /\ events < MaxEvents
  /\ events' = events + 1
  /\ pov' = p
  /\ autoRotate' = TRUE
  /\ UNCHANGED <<globeRef, loader, geoJson, focus, focusDirty, timers, camQ, lastTo, lastWritten,
                 selected, fadeT, fadeRAF, fadeQ, hovered, hoverAnimGroup, hoverAnimT,
                 hoverRAF, hoverQ, hoverDeps, leftAt, classifyVars, deltaVars>>

\* The component is unmounted: React runs the hover effect's cleanup and
\* clears the ref, and no effect runs again.  The timeout of the focus effect
\* and the frame callbacks of animatePOV and startEasedFade have no cleanup
\* and stay pending.
Unmount ==
  /\ globeRef = "handle"
  /\ globeRef' = "null"
  /\ hoverQ' = HoverCleanup(hoverQ, hoverRAF)
  /\ hoverRAF' = 0
  /\ UNCHANGED <<loader, geoJson, focus, focusDirty, timers, pov, autoRotate, camQ,
                 lastTo, lastWritten, events, selected, fadeT, fadeRAF, fadeQ, hovered,
                 hoverAnimGroup, hoverAnimT, hoverDeps, leftAt, classifyVars,
                 deltaVars>>

\* The timers with dt more elapsed.
AdvanceTimers(ts, dt) ==
  [i \in 1..Len(ts) |-> [ts[i] EXCEPT !.el = Min(ts[i].el + dt, FOCUS_TIMEOUT_MS)]]

\* A rendering frame dt after the previous one: every pending frame callback
\* runs once, in registration order.  While the component is mounted React
\* has committed the renders and run the effects of the previous frame and of
\* the events since.
Frame(dt) ==
  /\ globeRef = "handle" => (~focusDirty /\ hoverDeps = HoverDepsNow)
  /\ \/ camQ # <<>>
     \/ fadeQ # <<>>
     \/ hoverQ # <<>>
     \/ \E i \in 1..Len(timers) : timers[i].el < FOCUS_TIMEOUT_MS
  /\ LET cam == RunCamera(camQ, dt, [pov |-> pov, written |-> lastWritten, q |-> <<>>])
         fd  == RunFade(fadeQ, dt, [t |-> fadeT, ref |-> fadeRAF, q |-> <<>>])
         hv  == RunHover(hoverQ, dt, [t |-> hoverAnimT, group |-> hoverAnimGroup,
                                      ref |-> hoverRAF, q |-> <<>>])
     IN  /\ pov' = cam.pov
         /\ lastWritten' = cam.written
         /\ camQ' = cam.q
         /\ fadeT' = fd.t
         /\ fadeRAF' = fd.ref
         /\ fadeQ' = fd.q
         /\ hoverAnimT' = hv.t
         /\ hoverAnimGroup' = hv.group
         /\ hoverRAF' = hv.ref
         /\ hoverQ' = hv.q
  /\ timers' = AdvanceTimers(timers, dt)
  /\ UNCHANGED <<globeRef, loader, geoJson, focus, focusDirty, autoRotate, lastTo, events, selected,
                 hovered, hoverDeps, leftAt, classifyVars, deltaVars>>

AnyFrame == \E dt \in FrameSteps : Frame(dt)

Next ==
  \/ DataLoaded
  \/ FocusEffect
  \/ FocusTimeout
  \/ \E i \in FeatureIds : PolygonClick(i)
  \/ \E i \in FeatureIds \cup {0} : PolygonHover(i)
  \/ \E p \in DragPOVs : Drag(p)
  \/ HoverEffect
  \/ AnyFrame

\* The application while it is mounted and the source it fetches first delivers.
Spec == Init /\ [][Next]_vars

\* The runs in which the pointer clicks and drags but never changes what it hovers.
CameraFrame == \E dt \in CameraFrameSteps : Frame(dt)

CameraNext ==
  \/ DataLoaded
  \/ FocusEffect
  \/ FocusTimeout
  \/ \E i \in FeatureIds : PolygonClick(i)
  \/ \E p \in DragPOVs : Drag(p)
  \/ CameraFrame

CameraSpec == Init /\ [][CameraNext]_vars

\* The runs with no focus parameter in which the pointer only hovers.
HoverFrame == \E dt \in HoverFrameSteps : Frame(dt)

HoverNext ==
  \/ DataLoaded
  \/ FocusEffect
  \/ \E i \in FeatureIds \cup {0} : PolygonHover(i)
  \/ HoverEffect
  \/ HoverFrame

HoverInit == Init /\ focus = <<>>

HoverSpec == HoverInit /\ [][HoverNext]_vars

\* The frame clock keeps running and React runs the effects it owes.
FairHoverSpec ==
  HoverSpec /\ WF_vars(HoverFrame) /\ WF_vars(HoverEffect) /\ WF_vars(FocusEffect)

\* The runs with clicks only, under a frame clock that keeps advancing, with
\* React running the effects it owes and the browser running due timeouts.
FocusNext ==
  \/ DataLoaded
  \/ FocusEffect
  \/ FocusTimeout
  \/ \E i \in FeatureIds : PolygonClick(i)
  \/ AnyFrame

FocusSpec == Init /\ [][FocusNext]_vars

FairFocusSpec ==
  FocusSpec /\ WF_vars(AnyFrame) /\ WF_vars(FocusEffect) /\ WF_vars(FocusTimeout)

\* The runs in which every source may answer in every way, with drags only.
LoaderNext ==
  \/ \E o \in SourceOutcomes : SourceAttempt(o)
  \/ FocusEffect
  \/ FocusTimeout
  \/ \E p \in DragPOVs : Drag(p)
  \/ AnyFrame

LoaderSpec == Init /\ [][LoaderNext]_vars

\* The runs with clicks only in which the component may be unmounted.
UnmountNext ==
  \/ DataLoaded
  \/ FocusEffect
  \/ FocusTimeout
  \/ \E i \in FeatureIds : PolygonClick(i)
  \/ Unmount
  \/ AnyFrame

UnmountSpec == Init /\ [][UnmountNext]_vars

\* The application's variables while a pure function is examined on its own.
IdleApp ==
  /\ globeRef = "handle"
  /\ loader = LoaderStart
  /\ geoJson = "null"
  /\ focus = <<>>
  /\ focusDirty = FALSE
  /\ timers = <<>>
  /\ pov = InitialPOV
  /\ autoRotate = TRUE
  /\ camQ = <<>>
  /\ lastTo = NoPOV
  /\ lastWritten = NoPOV
  /\ events = 0
  /\ selected = 0
  /\ fadeT = 0
  /\ fadeRAF = 0
  /\ fadeQ = <<>>
  /\ hovered = 0
  /\ hoverAnimGroup = "null"
  /\ hoverAnimT = 0
  /\ hoverRAF = 0
  /\ hoverQ = <<>>
  /\ hoverDeps = <<"null", 0, "null">>
  /\ leftAt = -1

\* ------------------------------------------------------------------------
\* groupId on its own
\* ------------------------------------------------------------------------

IsoKeysTried == {"ISO_A3", "iso_a3", "a3"}

NameKeysTried == {"ADMIN", "NAME", "brk_name"}

IsoVals == {S_USA, S_usa, S_Gbr, S_spCAN, S_m99, <<>>}

NameVals ==
  {S_Canada, S_CanadaAcute, S_UKLong, S_TheUnitedKingdom, S_greatBritainSpaced,
   S_UdotKdot, S_Ruritania, S_PRC, S_Australia, <<>>}

\* The bags of B with one more field, of the keys K and the values V, set.
WithField(B, K, V) ==
  UNION {UNION {{[b EXCEPT ![k] = <<v>>] : v \in V} : k \in {x \in K : b[x] = <<>>}} :
           b \in B}

\* The property bags with at most n of the tried fields set.
RECURSIVE BagsUpTo(_)
BagsUpTo(n) ==
  IF n = 0 THEN {EmptyBag}
  ELSE LET B == BagsUpTo(n - 1)
       IN  B \cup WithField(B, IsoKeysTried, IsoVals)
             \cup WithField(B, NameKeysTried, NameVals)

ClassifyInputs ==
  {FeatureOf(b) : b \in BagsUpTo(MaxFields)} \cup {NoBagFeature, UndefinedFeature}

ClassifyInit ==
  /\ IdleApp
  /\ IdleDelta
  /\ feat \in ClassifyInputs
  /\ gid = "pending"

Classify ==
  /\ gid = "pending"
  /\ gid' = groupId(feat)
  /\ UNCHANGED <<appVars, feat, deltaVars>>

ClassifySpec == ClassifyInit /\ [][Classify]_vars

\* ------------------------------------------------------------------------
\* dLng and the longitude written, on their own
\* ------------------------------------------------------------------------

Lngs ==
  {(k * 36000) \div LngGrid - 18000 : k \in 0..LngGrid}
    \cup {17000, -17000}
    \cup {CUSTOM_VIEWS[GroupKeys[i]].lng : i \in 1..Len(GroupKeys)}

ProgressSamples == {0, 250, 500, 750, ES}

DeltaInit ==
  /\ IdleApp
  /\ IdleClassify
  /\ dFrom \in Lngs
  /\ dTo \in Lngs
  /\ dE \in {easeInOut(x) : x \in ProgressSamples}
  /\ dOut = NoDelta

\* The first lines of animatePOV and the longitude its step writes at eased
\* progress dE.
ComputeDelta ==
  /\ ~dOut.done
  /\ dOut' = [done |-> TRUE, d |-> dLng(dFrom, dTo),
              lng |-> dFrom + Scale(dLng(dFrom, dTo), dE)]
  /\ UNCHANGED <<appVars, classifyVars, dFrom, dTo, dE>>

DeltaSpec == DeltaInit /\ [][ComputeDelta]_vars

\* ------------------------------------------------------------------------
\* Properties
\* ------------------------------------------------------------------------

\* C1: once no camera frame callback remains pending, the POV last written by
\* a session is the target of the latest animatePOV call.
LastCallWins ==
  (camQ = <<>> /\ lastTo # NoPOV) => HandleSet(lastWritten) = lastTo

\* C2: at most one camera session has a pending frame callback.
OneCameraSession == Len(camQ) <= 1

\* C3: for each of fadeT and hoverAnimT at most one frame callback that writes
\* it is pending, and it is the one the ref of that output holds: a session
\* whose callback was cancelled has none left to run.
OneFadeOneHoverCallback ==
  /\ Len(fadeQ) <= 1
  /\ Len(hoverQ) <= 1
  /\ fadeQ # <<>> => fadeQ[1].h = fadeRAF
  /\ hoverQ # <<>> => hoverQ[1].h = hoverRAF

\* A fade and a hover session both restarted while the one before was mid-way.
BothRestartedMidway ==
  /\ Len(fadeQ) = 1 /\ fadeQ[1].el = 0 /\ fadeT > 0 /\ fadeT < ES
  /\ Len(hoverQ) = 1 /\ hoverQ[1].el = 0 /\ hoverAnimT > 0 /\ hoverAnimT < ES

\* C4: from the call of startEasedFade until its delay has passed fadeT is 0,
\* and once the fade has run to its end fadeT is 1.
FadeHeldAtZero ==
  /\ \A i \in 1..Len(fadeQ) : fadeQ[i].el < fadeQ[i].delay => fadeT = 0
  /\ (fadeRAF # 0 /\ fadeQ = <<>>) => fadeT = ES

\* C5: after a hover-leave, unless the pointer enters a region again, hoverAnimT
\* comes to 0 and the consumer hoverAnimGroup is cleared, and it is never
\* cleared before hoverAnimT is 0.
HoverLeaveCompletes ==
  /\ [](hovered = 0 /\ hoverAnimGroup = "null" => hoverAnimT = 0)
  /\ (hovered = 0 /\ leftAt >= 0)
       ~> (hovered # 0 \/ (hoverAnimT = 0 /\ hoverAnimGroup = "null"))

\* A hover-leave at a value above 0 has run to its end.
HoverLeaveCompleted ==
  hovered = 0 /\ leftAt > 0 /\ hoverAnimT = 0 /\ hoverAnimGroup = "null"

\* C6: while nothing is hovered each value published to hoverAnimT is at most
\* the one before and at least 0, and a value of a tenth or more is not
\* followed by 0.
HoverReversesSmoothly ==
  [][(hovered = 0 /\ hovered' = 0) =>
       /\ hoverAnimT' <= hoverAnimT
       /\ hoverAnimT' >= 0
       /\ (hoverAnimT * 10 >= ES => hoverAnimT' > 0)]_vars

\* The pointer left during the hover-enter animation and the value has come
\* down part of the way.
HoverReversedMidway ==
  hovered = 0 /\ leftAt > 0 /\ leftAt < ES /\ hoverAnimT > 0 /\ hoverAnimT < leftAt

\* C7: the longitude delta is at most half a revolution either way and is
\* congruent to target minus current modulo 360.
DeltaIsShortestPath ==
  dOut.done =>
    /\ -18000 <= dOut.d /\ dOut.d <= 18000
    /\ (dOut.d - (dTo - dFrom)) % 36000 = 0

\* A delta that was wrapped.
DeltaWrapped == dOut.done /\ dTo - dFrom > 18000 /\ dOut.d < 0

\* C8 as stated: from longitude 170 to -170 the delta is -20.
DeltaAcrossMeridianMinus20 ==
  (dOut.done /\ dFrom = 17000 /\ dTo = -17000) => dOut.d = -2000

\* C8 amended: from longitude 170 to -170 the delta is +20 (not -340), and the
\* longitude written goes from 170 up through 180 to 190, which is -170.
DeltaAcrossMeridianPlus20 ==
  (dOut.done /\ dFrom = 17000 /\ dTo = -17000) =>
    /\ dOut.d = 2000
    /\ 17000 <= dOut.lng /\ dOut.lng <= 19000
    /\ dE = 0 => dOut.lng = 17000
    /\ dE = ES => dOut.lng = 19000 /\ WrapLng(dOut.lng) = dTo

\* The flight from 170 to -170 at its last frame.
MeridianCrossed == dOut.done /\ dFrom = 17000 /\ dTo = -17000 /\ dE = ES

\* C9: every POV a camera session writes has latitude in [-90, 90], longitude
\* in [-180, 180] and altitude above 0.
WrittenPOVInRange ==
  lastWritten # NoPOV =>
    /\ -9000 <= lastWritten.lat /\ lastWritten.lat <= 9000
    /\ -18000 <= lastWritten.lng /\ lastWritten.lng <= 18000
    /\ lastWritten.altitude > 0

\* The value of the first of the keys that holds a non-empty string, '' if none does.
FirstSet(p, keys) ==
  IF \E i \in 1..Len(keys) : Truthy(p[keys[i]])
  THEN p[keys[CHOOSE i \in 1..Len(keys) :
                /\ Truthy(p[keys[i]])
                /\ \A j \in 1..(i - 1) : ~Truthy(p[keys[j]])]][1]
  ELSE <<>>

GroupSet == {GroupKeys[i] : i \in 1..Len(GroupKeys)}

\* C10: groupId returns the group whose ISO-3 list holds the feature's ISO code
\* if there is one, whatever the name; else the group with an alias whose
\* normalized form is the normalized name; else GBR if the normalized name
\* contains 'united kingdom' or 'great britain'; else none, also for a feature
\* with no recognised field or no property bag, and without failing.  At most
\* one group matches by code and at most one by name.
ClassifierFirstMatchWins ==
  gid # "pending" =>
    LET p      == IF feat.kind = "bag" THEN feat.properties ELSE EmptyBag
        iso    == ToUpperCase(FirstSet(p, IsoKeys))
        name   == FirstSet(p, NameKeys)
        nameN  == norm(<<name>>)
        byIso  == {g \in GroupSet :
                     \E j \in 1..Len(GROUPS[g].iso3) : GROUPS[g].iso3[j] = iso}
        byName == {g \in GroupSet :
                     \E j \in 1..Len(GROUPS[g].names) :
                       norm(<<GROUPS[g].names[j]>>) = nameN}
    IN  /\ gid \in GroupSet \cup {"null"}
        /\ Cardinality(byIso) <= 1
        /\ Cardinality(byName) <= 1
        /\ byIso # {} => gid \in byIso
        /\ (byIso = {} /\ byName # {}) => gid \in byName
        /\ (byIso = {} /\ byName = {}) =>
             gid = IF Includes(nameN, S_united_kingdom) \/ Includes(nameN, S_great_britain)
                   THEN "GBR" ELSE "null"
        /\ feat.kind # "bag" => gid = "null"
        /\ p = EmptyBag => gid = "null"
        /\ p["ISO_A3"] = <<S_USA>> => gid = "USA"
        /\ (byIso = {} /\ name = S_UKLong) => (nameN = N_uklong /\ gid = "GBR")
        /\ (byIso = {} /\ name = S_Ruritania) => (nameN = N_ruritania /\ gid = "null")
        /\ (byIso = {} /\ name = S_CanadaAcute) => (nameN = N_canada /\ gid = "CAN")
        /\ (byIso = {} /\ name = S_greatBritainSpaced) =>
             (nameN = S_great_britain /\ gid = "GBR")
        /\ (byIso = {} /\ name = S_TheUnitedKingdom) =>
             (nameN = N_the_united_kingdom /\ gid = "GBR")
        /\ (byIso = {} /\ name = S_UdotKdot) => (nameN = N_u_k /\ gid = "null")
        /\ (byIso = {} /\ name = S_PRC) => (nameN = N_prc /\ gid = "CHN")

\* A feature whose code is of one group and whose name is an alias of another
\* was given the code's group.
CodeBeatName ==
  /\ gid = "USA"
  /\ feat.properties["iso_a3"] = <<S_usa>>
  /\ feat.properties["NAME"] = <<S_Canada>>

\* The groups a focus parameter names, whatever the case of its letters.
FocusNamed ==
  [f \in FocusParams |->
     {g \in GroupSet : Truthy(f) /\ ToLowerCase(f[1]) = ToLowerCase(GROUPS[g].iso3[1])}]

FocusNames(g) == g \in FocusNamed[focus]

\* The focus timeout has just run for group g: the flight to the group's view
\* and the fade are registered, a feature of the group is selected and
\* auto-rotate is off.
FocusFlightStartedFor(g) ==
  /\ camQ # <<>>
  /\ camQ[Len(camQ)].to = CUSTOM_VIEWS[g]
  /\ camQ[Len(camQ)].el = 0
  /\ lastTo = CUSTOM_VIEWS[g]
  /\ fadeQ # <<>>
  /\ fadeQ[Len(fadeQ)].el = 0
  /\ fadeQ[Len(fadeQ)].h = fadeRAF
  /\ selected # 0
  /\ FeatureGroup[selected] = g
  /\ autoRotate = FALSE

\* C11: once the collection is loaded (the handle exists), a focus parameter
\* that names one of the five groups in any case, with a feature of that group
\* in the collection, leads to the flight to the group's view being started,
\* the fade started, a feature of the group selected and auto-rotate off; with
\* an absent focus parameter or one that names no group no timeout is ever
\* set, and a flight starts or the selection changes only by a user's event.
FocusStartsFlight ==
  /\ (/\ geoJson = "loaded"
      /\ focusDirty
      /\ globeRef = "handle"
      /\ \E g \in GroupSet :
           FocusNames(g) /\ \E i \in FeatureIds : FeatureGroup[i] = g)
       ~> (\E g \in GroupSet : FocusNames(g) /\ FocusFlightStartedFor(g))
  /\ [][(\A g \in GroupSet : ~FocusNames(g)) =>
          /\ timers' = <<>>
          /\ (Len(camQ') > Len(camQ) \/ selected' # selected) => events' = events + 1]_vars

\* The flight the focus parameter asked for has started.
FocusFlightStarted ==
  /\ events = 0
  /\ \E g \in GroupSet : FocusNames(g) /\ FocusFlightStartedFor(g)

\* Source k, which answered with o, failed: the attempt threw (the fetch was
\* rejected, the body did not parse, or for the primary source the body was no
\* topology) or the response had a non-success status.
SourceFailed(k, o) ==
  \/ o.status \in {"reject", "notok"}
  \/ o.body = "garbage"
  \/ k = 1 /\ o.body # "features"

\* C12: the sources are tried in list order, one at a time; a source is tried
\* only after every earlier one failed (threw or answered with a non-success
\* status); the collection is set once, by the first source that succeeds,
\* and no source is tried after it; if all four fail the collection stays
\* null, an error is logged and the user's events are still served.
LoaderFirstSuccessWins ==
  LET n == Len(loader.tried)
  IN  /\ n <= Len(Sources)
      /\ loader.at = (IF geoJson = "loaded" THEN Len(Sources) + 1 ELSE n + 1)
      /\ \A k \in 1..n : \A j \in 1..(k - 1) : SourceFailed(j, loader.tried[j])
      /\ loader.sets = (IF geoJson = "loaded" THEN 1 ELSE 0)
      /\ geoJson = "loaded" <=> (n > 0 /\ ~SourceFailed(n, loader.tried[n]))
      /\ (n = Len(Sources) /\ \A k \in 1..n : SourceFailed(k, loader.tried[k])) =>
            /\ geoJson = "null"
            /\ loader.log # <<>>
            /\ loader.log[Len(loader.log)] = "error"
            /\ events < MaxEvents => ENABLED (\E p \in DragPOVs : Drag(p))

\* C13: animatePOV called while globeRef.current is null (by the focus
\* timeout that outlives the component) is a no-op: no frame callback is
\* registered, no POV is written, the hover state is untouched, and no error
\* is raised: the statements that follow the call in the callback run, and
\* the fade and the selection are what they alone make them.
AnimatePOVWithoutHandleIsNoop ==
  [][(globeRef = "null" /\ timers # <<>> /\ timers' = Tail(timers)) =>
       /\ camQ' = camQ
       /\ lastTo' = lastTo
       /\ pov' = pov
       /\ lastWritten' = lastWritten
       /\ autoRotate' = autoRotate
       /\ <<hovered, hoverAnimGroup, hoverAnimT, hoverRAF, hoverQ>>' =
            <<hovered, hoverAnimGroup, hoverAnimT, hoverRAF, hoverQ>>
       /\ fadeT' = fadeT
       /\ selected' = Head(timers).f
       /\ fadeRAF' # 0
       /\ Len(fadeQ') = 1
       /\ fadeQ'[1].h = fadeRAF'
       /\ fadeQ'[1].el = 0]_vars

\* The focus timeout ran after the component was unmounted: its feature is
\* selected, the fade is registered and animatePOV has registered nothing.
TimeoutRanWithoutHandle ==
  /\ globeRef = "null"
  /\ events = 0
  /\ timers = <<>>
  /\ selected # 0
  /\ fadeQ # <<>>
  /\ camQ = <<>>
  /\ lastTo = NoPOV

\* The camera callbacks pending after a frame dt later: one for each session
\* of q that is still short of its duration, none for the others.
StillRunning(q, dt) ==
  SelectSeq([i \in 1..Len(q) |-> [q[i] EXCEPT !.el = q[i].el + dt]],
            LAMBDA c : c.el < c.ms)

\* The POV for progress 1 of session c.
FinalPOV(c) ==
  [lat |-> c.to.lat, lng |-> c.from.lng + dLng(c.from.lng, c.to.lng),
   altitude |-> c.to.altitude]

\* C14: a session has exactly one frame callback pending while its progress
\* is below 1 and none once it has reached 1; with frames going on every
\* session comes to have no pending callback; and the last POV written by a
\* session that ends with no other session pending is the one for progress 1:
\* the target's latitude and altitude and the start longitude plus the
\* shortest-path delta.
SessionRunsToProgressOne ==
  /\ [](\A i \in 1..Len(camQ) : camQ[i].ms > 0 /\ camQ[i].el < camQ[i].ms)
  /\ [][/\ (Len(camQ') > Len(camQ)) =>
             (Len(camQ') = Len(camQ) + 1 /\ camQ'[Len(camQ')].el = 0)
        /\ (camQ' # camQ /\ Len(camQ') <= Len(camQ)) =>
             (\E dt \in FrameSteps : camQ' = StillRunning(camQ, dt))
        /\ (Len(camQ) = 1 /\ camQ' = <<>>) =>
             (lastWritten' = FinalPOV(camQ[1]) /\ pov' = camQ[1].to)]_vars
  /\ (camQ # <<>>) ~> (camQ = <<>>)

\* One click's flight, started with no other flight pending, has ended at its
\* target.
FlightEndedAtTarget ==
  /\ focus = <<>>
  /\ events = 1
  /\ camQ = <<>>
  /\ lastTo # NoPOV
  /\ lastWritten = FinalPOV([from |-> InitialPOV, to |-> lastTo])
  /\ pov = lastTo

====
